---------------------------- MODULE Spec2Model ----------------------------
(***************************************************************************)
(* A model of src/src/stock_screener.py: the watchlist registry SECTORS,   *)
(* the metrics fetcher get_stock_data, the two scoring functions, the      *)
(* screening pipeline screen_stocks and the interactive loop of main.      *)
(*                                                                         *)
(* Numbers that are floats in the program are exact rationals here, a      *)
(* record [num, den] with den > 0; floating-point rounding is not          *)
(* modelled.  A Python value that may be None is a sequence of length 0    *)
(* (None) or 1 (the value).  Python's 0-based position k of a sequence is  *)
(* position k + 1 here.                                                    *)
(***************************************************************************)
EXTENDS Integers, Sequences, FiniteSets, TLC

VARIABLES
    pc,               \* position of the program: what runs next
    arg,              \* argument of the function under call (pure-function specs)
    ret,              \* its return value, None until it has returned
    provider,         \* frozen responses of the market data provider, per symbol
    hashOrder,        \* iteration order of set(...) in this process (line 237);
                      \* << >> where no set is ever built
    sectors,          \* the registry SECTORS (a module-level dict)
    category,         \* screen_stocks: parameter category
    min_value_score,  \* screen_stocks: parameter
    min_trend_score,  \* screen_stocks: parameter
    symbols,          \* screen_stocks: local symbols
    idx,              \* screen_stocks: how many symbols the loop has handled
    results,          \* screen_stocks: local results
    df,               \* what screen_stocks returned to its caller
    fetched,          \* calls of get_stock_data in the current pass, per symbol
    out,              \* what the last step printed: a sequence of messages
    raised,           \* whether an exception left screen_stocks or main
    passes,           \* screening passes started so far
    prev,             \* history: whether passes are recorded, and the
                      \* arguments and result of the first pass if so
    choice            \* main: the line last read by input()

vars == <<pc, arg, ret, provider, hashOrder, sectors, category, min_value_score,
          min_trend_score, symbols, idx, results, df, fetched, out, raised,
          passes, prev, choice>>

-----------------------------------------------------------------------------
(* Values *)

None == << >>

Some(v) == <<v>>

Rat(n, d) == [num |-> n, den |-> d]

\* x < n/d, x > n/d for a rational x (all denominators positive)
Lt(x, n, d) == x.num * d < n * x.den

Gt(x, n, d) == x.num * d > n * x.den

\* Python truthiness of an optional number: None and 0 are false
Truthy(o) == o # None /\ o[1].num # 0

\* How far, in hundredths, the sampled inputs spread around each threshold
Spread == 1

\* The rationals within Spread hundredths of n/d
Around(n, d) == {Rat(n * 100 + k * d, d * 100) : k \in (0 - Spread)..Spread}

-----------------------------------------------------------------------------
(* calculate_value_score, lines 143-186 *)

pe_points(stock) ==
    LET pe == stock.pe_ratio
    IN  IF Truthy(pe) /\ Gt(pe[1], 0, 1)
        THEN IF Lt(pe[1], 15, 1) THEN 3
             ELSE IF Lt(pe[1], 20, 1) THEN 2
             ELSE IF Lt(pe[1], 25, 1) THEN 1
             ELSE 0
        ELSE 0

pb_points(stock) ==
    LET pb == stock.pb_ratio
    IN  IF Truthy(pb) /\ Gt(pb[1], 0, 1)
        THEN IF Lt(pb[1], 15, 10) THEN 3
             ELSE IF Lt(pb[1], 3, 1) THEN 2
             ELSE IF Lt(pb[1], 5, 1) THEN 1
             ELSE 0
        ELSE 0

div_points(stock) ==
    LET div_yield == stock.dividend_yield
    IN  IF Gt(div_yield, 4, 100) THEN 3
        ELSE IF Gt(div_yield, 2, 100) THEN 2
        ELSE IF Gt(div_yield, 1, 100) THEN 1
        ELSE 0

beta_points(stock) ==
    LET beta == stock.beta
    IN  IF Truthy(beta)
        THEN IF Lt(beta[1], 8, 10) THEN 3
             ELSE IF Lt(beta[1], 1, 1) THEN 2
             ELSE IF Lt(beta[1], 12, 10) THEN 1
             ELSE 0
        ELSE 0

calculate_value_score(stock) ==
    pe_points(stock) + pb_points(stock) + div_points(stock) + beta_points(stock)

-----------------------------------------------------------------------------
(* calculate_trend_score, lines 189-213 *)

\* A plausible slip: the 1-year boundaries compared with >= instead of >
trend_score_inclusive(stock) ==
    LET ret_1y == stock.ret_1y
        ret_2y == stock.ret_2y
    IN  (IF ~Lt(ret_1y, 20, 1) THEN 3
         ELSE IF ~Lt(ret_1y, 10, 1) THEN 2
         ELSE IF ~Lt(ret_1y, 0, 1) THEN 1
         ELSE IF Lt(ret_1y, -20, 1) THEN -2
         ELSE 0)
      + (IF Gt(ret_2y, 30, 1) THEN 3
         ELSE IF Gt(ret_2y, 15, 1) THEN 2
         ELSE IF Gt(ret_2y, 0, 1) THEN 1
         ELSE 0)

calculate_trend_score(stock) ==
    LET ret_1y == stock.ret_1y
        ret_2y == stock.ret_2y
    IN  (IF Gt(ret_1y, 20, 1) THEN 3
         ELSE IF Gt(ret_1y, 10, 1) THEN 2
         ELSE IF Gt(ret_1y, 0, 1) THEN 1
         ELSE IF Lt(ret_1y, -20, 1) THEN -2
         ELSE 0)
      + (IF Gt(ret_2y, 30, 1) THEN 3
         ELSE IF Gt(ret_2y, 15, 1) THEN 2
         ELSE IF Gt(ret_2y, 0, 1) THEN 1
         ELSE 0)

-----------------------------------------------------------------------------
(* The registry, lines 12-102, abridged to two categories that share a     *)
(* symbol, as "utilities" and "infrastructure" share NEE in the program.   *)
(* No category of the program lists a symbol twice and none is empty.      *)

SectorKeys == <<"utilities", "infrastructure">>

SECTORS ==
    [k \in {"utilities", "infrastructure"} |->
        IF k = "utilities" THEN <<"NEE", "DUK">> ELSE <<"AMT", "NEE">>]

Range(s) == {s[j] : j \in DOMAIN s}

AllSymbols == UNION {Range(SECTORS[k]) : k \in DOMAIN SECTORS}

-----------------------------------------------------------------------------
(* The market data provider, as get_stock_data uses it (lines 108-112): a  *)
(* response says whether ticker.info or ticker.history raises, and holds   *)
(* the info mapping (a missing key reads as None) and the closing prices   *)
(* of the history, oldest first.  Prices are positive integers (cents).    *)

Info(pe, pb, dy, beta) ==
    [trailingPE |-> pe, priceToBook |-> pb, dividendYield |-> dy, beta |-> beta]

Response(info_raises, history_raises, info, closes) ==
    [info_raises |-> info_raises, history_raises |-> history_raises,
     info |-> info, closes |-> closes]

-----------------------------------------------------------------------------
(* get_stock_data, lines 105-140.  The fields of the record that only the  *)
(* display reads (name, sector, forward_pe, market_cap, 52w_high, 52w_low, *)
(* avg_volume) are left out.                                               *)

\* The history length above which the midpoint stands for "one year ago"
MIDPOINT_MIN == 250

\* hist["Close"].iloc[k] for k >= 0
iloc(closes, k) == closes[k + 1]

\* A plausible slip: the midpoint used from 250 observations on, not above 250
price_1y_ago_from_250(closes) ==
    IF Len(closes) >= MIDPOINT_MIN
    THEN iloc(closes, Len(closes) \div 2)
    ELSE iloc(closes, 0)

price_1y_ago(closes) ==
    IF Len(closes) > MIDPOINT_MIN
    THEN iloc(closes, Len(closes) \div 2)
    ELSE iloc(closes, 0)

\* ((current - reference) / reference) * 100
pct_return(current_price, reference) ==
    Rat((current_price - reference) * 100, reference)

\* info.get("dividendYield", 0) or 0
or_zero(o) == IF Truthy(o) THEN o[1] ELSE Rat(0, 1)

\* Whether the call ends in the except branch (and prints the error)
fetch_raises(symbol) ==
    provider[symbol].info_raises \/ provider[symbol].history_raises

\* A printed line: its text up to the first placeholder, and what fills it
Msg(text, what) == [text |-> text, what |-> what]

\* print(f"Error fetching {symbol}: {e}"), line 139
fetch_prints(symbol) ==
    IF fetch_raises(symbol) THEN <<Msg("Error fetching", symbol)>> ELSE << >>

\* A plausible slip: the try block ends before the history call
fetch_escapes_history(symbol) == provider[symbol].history_raises

\* Whether an exception leaves get_stock_data: the try block spans the whole
\* body and except Exception catches every provider error (lines 107, 138)
fetch_escapes(symbol) == FALSE

\* None when a provider call raises or the history is empty (lines 113-114,
\* 138-140), else the metrics record
get_stock_data(symbol) ==
    LET r == provider[symbol]
        closes == r.closes
        current_price == iloc(closes, Len(closes) - 1)
        p1 == price_1y_ago(closes)
        price_2y_ago == iloc(closes, 0)
    IN  IF r.info_raises \/ r.history_raises THEN None
        ELSE IF closes = << >> THEN None
        ELSE Some([symbol |-> symbol,
                   price |-> current_price,
                   pe_ratio |-> r.info.trailingPE,
                   pb_ratio |-> r.info.priceToBook,
                   dividend_yield |-> or_zero(r.info.dividendYield),
                   beta |-> r.info.beta,
                   ret_1y |-> pct_return(current_price, p1),
                   ret_2y |-> pct_return(current_price, price_2y_ago)])

-----------------------------------------------------------------------------
(* The state before any call of screen_stocks or main *)

NoResponse == Response(FALSE, FALSE, Info(None, None, None, None), << >>)

NoCall ==
    /\ sectors = SECTORS
    /\ category = None
    /\ min_value_score = 0
    /\ min_trend_score = 0
    /\ symbols = << >>
    /\ idx = 0
    /\ results = << >>
    /\ df = None
    /\ fetched = [s \in AllSymbols |-> 0]
    /\ out = << >>
    /\ raised = FALSE
    /\ passes = 0
    /\ prev = [tracking |-> FALSE, first |-> None]
    /\ choice = << >>

NoCallUnchanged ==
    UNCHANGED <<sectors, category, min_value_score, min_trend_score, symbols,
                idx, results, df, fetched, out, raised, passes, prev, choice>>

\* Some iteration order of the set of all symbols: a sequence without
\* repetition that holds each symbol
Orders(S) ==
    {o \in [1..Cardinality(S) -> S] : Range(o) = S}

-----------------------------------------------------------------------------
(* calculate_value_score called on one metrics record *)

PeSamples ==
    {None, Some(Rat(0, 1)), Some(Rat(-5, 1)), Some(Rat(10, 1))}
    \cup {Some(x) : x \in Around(15, 1) \cup Around(20, 1) \cup Around(25, 1)}

PbSamples ==
    {None, Some(Rat(0, 1)), Some(Rat(-2, 1)), Some(Rat(1, 1))}
    \cup {Some(x) : x \in Around(15, 10) \cup Around(3, 1) \cup Around(5, 1)}

\* get_stock_data never leaves the dividend yield None (line 129)
YieldSamples ==
    {Rat(0, 1), Rat(5, 100)}
    \cup Around(4, 100) \cup Around(2, 100) \cup Around(1, 100)

BetaSamples ==
    {None, Some(Rat(0, 1)), Some(Rat(-5, 10)), Some(Rat(7, 10))}
    \cup {Some(x) : x \in Around(8, 10) \cup Around(1, 1) \cup Around(12, 10)}

ValueInit ==
    /\ pc = "call_value"
    /\ arg \in [pe_ratio : PeSamples, pb_ratio : PbSamples,
                dividend_yield : YieldSamples, beta : BetaSamples]
    /\ ret = None
    /\ provider = [s \in AllSymbols |-> NoResponse]
    /\ hashOrder = << >>
    /\ NoCall

ValueCall ==
    /\ pc = "call_value"
    /\ ret' = Some(calculate_value_score(arg))
    /\ pc' = "returned"
    /\ UNCHANGED <<arg, provider, hashOrder>>
    /\ NoCallUnchanged

SpecValue == ValueInit /\ [][ValueCall]_vars

-----------------------------------------------------------------------------
(* calculate_trend_score called on one pair of returns *)

Ret1ySamples ==
    {Rat(25, 1), Rat(-25, 1)}
    \cup Around(20, 1) \cup Around(10, 1) \cup Around(0, 1) \cup Around(-20, 1)

Ret2ySamples ==
    {Rat(40, 1), Rat(-5, 1), Rat(-25, 1)}
    \cup Around(30, 1) \cup Around(15, 1) \cup Around(0, 1)

TrendInit ==
    /\ pc = "call_trend"
    /\ arg \in [ret_1y : Ret1ySamples, ret_2y : Ret2ySamples]
    /\ ret = None
    /\ provider = [s \in AllSymbols |-> NoResponse]
    /\ hashOrder = << >>
    /\ NoCall

TrendCall ==
    /\ pc = "call_trend"
    /\ ret' = Some(calculate_trend_score(arg))
    /\ pc' = "returned"
    /\ UNCHANGED <<arg, provider, hashOrder>>
    /\ NoCallUnchanged

SpecTrend == TrendInit /\ [][TrendCall]_vars

-----------------------------------------------------------------------------
(* Properties of the scoring functions *)

Known(o) == o # None

\* x < t, x > t for a rational x and t = n / d, as the tables state them
Below(x, n, d) == x.num * d < n * x.den

Above(x, n, d) == x.num * d > n * x.den

\* One "lower is better" row of the value table: 3 / 2 / 1 below the three
\* thresholds a < b < c (each a number of hundredths), first match wins
LowBucket(x, a, b, c) ==
    CASE Below(x, a, 100) -> 3
      [] ~Below(x, a, 100) /\ Below(x, b, 100) -> 2
      [] ~Below(x, b, 100) /\ Below(x, c, 100) -> 1
      [] OTHER -> 0

\* One "higher is better" row: 3 / 2 / 1 above the thresholds a > b > c
HighBucket(x, a, b, c) ==
    CASE Above(x, a, 100) -> 3
      [] ~Above(x, a, 100) /\ Above(x, b, 100) -> 2
      [] ~Above(x, b, 100) /\ Above(x, c, 100) -> 1
      [] OTHER -> 0

ValueAsClaimed(stock) ==
    (IF Known(stock.pe_ratio) /\ Above(stock.pe_ratio[1], 0, 1)
     THEN LowBucket(stock.pe_ratio[1], 1500, 2000, 2500) ELSE 0)
  + (IF Known(stock.pb_ratio) /\ Above(stock.pb_ratio[1], 0, 1)
     THEN LowBucket(stock.pb_ratio[1], 150, 300, 500) ELSE 0)
  + HighBucket(stock.dividend_yield, 4, 2, 1)
  + (IF Known(stock.beta)
     THEN LowBucket(stock.beta[1], 80, 100, 120) ELSE 0)

\* C1: calculate_value_score returns the sum of the four bucket
\* contributions of the table, the beta row applying whenever beta is
\* known; the result lies in 0..12; it is 12 for P/E 10, P/B 1.0, yield
\* 0.05, beta 0.7 and 0 when P/E, P/B and beta are unknown and yield is 0.
C1_ValueScoreAsClaimed ==
    pc = "returned" =>
        /\ ret = Some(ValueAsClaimed(arg))
        /\ ret[1] \in 0..12
        /\ (arg = [pe_ratio |-> Some(Rat(10, 1)), pb_ratio |-> Some(Rat(1, 1)),
                   dividend_yield |-> Rat(5, 100), beta |-> Some(Rat(7, 10))]
              => ret[1] = 12)
        /\ (arg = [pe_ratio |-> None, pb_ratio |-> None,
                   dividend_yield |-> Rat(0, 1), beta |-> None]
              => ret[1] = 0)

\* The same statement for every record whose beta is not a known zero
C1_ExceptZeroBeta ==
    (pc = "returned" /\ arg.beta # Some(Rat(0, 1))) =>
        /\ ret = Some(ValueAsClaimed(arg))
        /\ ret[1] \in 0..12

\* The penalty and the three gains of the 1-year row
Trend1yAsClaimed(x) ==
    CASE Above(x, 20, 1) -> 3
      [] ~Above(x, 20, 1) /\ Above(x, 10, 1) -> 2
      [] ~Above(x, 10, 1) /\ Above(x, 0, 1) -> 1
      [] Below(x, -20, 1) -> -2
      [] OTHER -> 0

Trend2yAsClaimed(x) ==
    CASE Above(x, 30, 1) -> 3
      [] ~Above(x, 30, 1) /\ Above(x, 15, 1) -> 2
      [] ~Above(x, 15, 1) /\ Above(x, 0, 1) -> 1
      [] OTHER -> 0

\* A return that is exactly the integer t
Exactly(x, t) == x.num = t * x.den

\* C2: calculate_trend_score returns c1 + c2, c1 from the 1-year row
\* (3 / 2 / 1 above 20 / 10 / 0, -2 below -20, else 0) and c2 from the
\* 2-year row (3 / 2 / 1 above 30 / 15 / 0, else 0, no penalty); the result
\* lies in -2..6, and a return exactly on a boundary scores as the lower
\* bucket.
C2_TrendScore ==
    pc = "returned" =>
        /\ ret = Some(Trend1yAsClaimed(arg.ret_1y) + Trend2yAsClaimed(arg.ret_2y))
        /\ ret[1] \in -2..6
        /\ (Exactly(arg.ret_1y, 20) /\ Exactly(arg.ret_2y, 30) => ret[1] = 2 + 2)
        /\ (Exactly(arg.ret_1y, 10) /\ Exactly(arg.ret_2y, 15) => ret[1] = 1 + 1)
        /\ (Exactly(arg.ret_1y, 0) /\ Exactly(arg.ret_2y, 0) => ret[1] = 0)
        /\ (Exactly(arg.ret_1y, -20) /\ Exactly(arg.ret_2y, -25) => ret[1] = 0)
        /\ (Exactly(arg.ret_1y, -25) /\ Exactly(arg.ret_2y, 40) => ret[1] = 1)

\* The score of a pair on the boundaries 20 and 30 has been returned
C2_Witness ==
    /\ pc = "returned"
    /\ Exactly(arg.ret_1y, 20)
    /\ Exactly(arg.ret_2y, 30)
    /\ ret = Some(4)

-----------------------------------------------------------------------------
(* get_stock_data called on one symbol *)

\* A history of n closes that differ from one day to the next
History(n, a, b) == [j \in 1..n |-> b + ((a * j) % 97)]

\* Lengths of history: short ones, those around MIDPOINT_MIN, and around
\* twice that (two years of trading days)
LengthSamples ==
    (1..(1 + Spread))
    \cup ((MIDPOINT_MIN - Spread)..(MIDPOINT_MIN + 1 + Spread))
    \cup ((2 * MIDPOINT_MIN)..(2 * MIDPOINT_MIN + 1 + Spread))

InfoSamples ==
    {Info(None, None, None, None),
     Info(Some(Rat(10, 1)), Some(Rat(1, 1)), Some(Rat(5, 100)), Some(Rat(7, 10))),
     Info(Some(Rat(18, 1)), None, Some(Rat(0, 1)), Some(Rat(0, 1)))}

FetchSamples ==
    {Response(FALSE, FALSE, info, History(n, a, b)) :
        info \in InfoSamples, n \in LengthSamples, a \in {1, 5}, b \in {40, 100}}
    \cup {Response(FALSE, FALSE, info, << >>) : info \in InfoSamples}
    \cup {Response(TRUE, FALSE, Info(None, None, None, None), History(2, 1, 40)),
          Response(FALSE, TRUE, Info(None, None, None, None), << >>)}

FetchInit ==
    /\ pc = "call_fetch"
    /\ arg \in AllSymbols
    /\ ret = None
    /\ \E r \in FetchSamples :
          provider = [s \in AllSymbols |-> IF s = arg THEN r ELSE NoResponse]
    /\ hashOrder = << >>
    /\ NoCall

FetchCall ==
    /\ pc = "call_fetch"
    /\ ret' = Some(get_stock_data(arg))
    /\ out' = fetch_prints(arg)
    /\ pc' = "returned"
    /\ UNCHANGED <<arg, provider, hashOrder, sectors, category, min_value_score,
                   min_trend_score, symbols, idx, results, df, fetched, raised,
                   passes, prev, choice>>

SpecFetch == FetchInit /\ [][FetchCall]_vars

\* C9: for a history of n >= 1 closes, current_price is the last close,
\* price_2y_ago the first, price_1y_ago the close at index floor(n/2) when
\* n > 250 and the first close when n <= 250 (so at n = 250 the two returns
\* are equal); each return is the percentage change of current_price
\* against its reference price.
C9_ReferencePrices ==
    LET r == provider[arg]
        n == Len(r.closes)
        last == r.closes[n]
        first == r.closes[1]
        mid == r.closes[(n \div 2) + 1]
        data == ret[1][1]
    IN  (pc = "returned" /\ ~r.info_raises /\ ~r.history_raises /\ n >= 1) =>
            /\ ret[1] # None
            /\ data.price = last
            /\ data.ret_2y = [num |-> (last - first) * 100, den |-> first]
            /\ n > 250 => data.ret_1y = [num |-> (last - mid) * 100, den |-> mid]
            /\ n <= 250 => data.ret_1y = [num |-> (last - first) * 100, den |-> first]
            /\ n = 250 => data.ret_1y = data.ret_2y

\* A record has been returned for a history of 251 closes whose midpoint
\* close is not its first close
C9_Witness ==
    /\ pc = "returned"
    /\ Len(provider[arg].closes) = 251
    /\ provider[arg].closes[126] # provider[arg].closes[1]
    /\ ret[1] # None
    /\ ret[1][1].ret_1y # ret[1][1].ret_2y

-----------------------------------------------------------------------------
(* screen_stocks, lines 216-264 *)

DEFAULT_MIN_VALUE == 5

DEFAULT_MIN_TREND == 2

\* Truth value of the parameter category: None and "" are false (line 229)
category_given(cat) == cat # None /\ cat[1] # ""

\* SECTORS.get(category, []), line 230
sectors_get(cat) == IF cat \in DOMAIN sectors THEN sectors[cat] ELSE << >>

\* A plausible slip: the lists of all categories chained, with no set(...)
chained_symbols ==
    sectors[SectorKeys[1]] \o sectors[SectorKeys[2]]

\* list(set(sym for syms in SECTORS.values() for sym in syms)), line 237:
\* each symbol once, in the order this process's string hashes give
unique_symbols == hashOrder

\* data with the three scores attached, lines 246-248
scored(data) ==
    LET v == calculate_value_score(data)
        t == calculate_trend_score(data)
    IN  [symbol |-> data.symbol, price |-> data.price,
         pe_ratio |-> data.pe_ratio, pb_ratio |-> data.pb_ratio,
         dividend_yield |-> data.dividend_yield, beta |-> data.beta,
         ret_1y |-> data.ret_1y, ret_2y |-> data.ret_2y,
         value_score |-> v, trend_score |-> t, combined_score |-> v + t]

\* A plausible slip: | in place of & in the row filter
keep_either(row, mv, mt) == row.value_score >= mv \/ row.trend_score >= mt

\* The row filter of line 259
keep(row, mv, mt) == row.value_score >= mv /\ row.trend_score >= mt

\* df[...] of line 259: the rows that pass, in their order
filter_rows(rows, mv, mt) ==
    LET Test(row) == keep(row, mv, mt) IN SelectSeq(rows, Test)

\* One row put into rows already in descending order, after every row whose
\* key is not smaller
insert_row(sorted, row) ==
    LET p == Cardinality({j \in DOMAIN sorted :
                             sorted[j].combined_score >= row.combined_score})
    IN  SubSeq(sorted, 1, p) \o <<row>> \o SubSeq(sorted, p + 1, Len(sorted))

\* A plausible slip: the sorted frame is not assigned back to df
unsorted(rows) == rows

\* df.sort_values("combined_score", ascending=False), line 262.  pandas
\* sorts the reversed keys with numpy's default sort and reverses the
\* outcome; for up to 16 rows that sort is an insertion sort, so rows with
\* equal keys keep the order they had in df.
RECURSIVE sort_values(_)
sort_values(rows) ==
    IF rows = << >> THEN << >>
    ELSE insert_row(sort_values(SubSeq(rows, 1, Len(rows) - 1)), rows[Len(rows)])

\* A plausible slip: the list outlives the call (a mutable default argument)
stale_results == results

\* results = [], line 241
empty_results == << >>

\* History: the first pass that returns is kept, where passes are recorded
record_pass(cat, mv, mt, frame) ==
    IF prev.tracking /\ prev.first = None
    THEN [prev EXCEPT !.first =
             Some([category |-> cat, mv |-> mv, mt |-> mt, df |-> frame])]
    ELSE prev

\* Lines 229-239: the symbols are resolved, or the unknown category is
\* reported and an empty frame returned
screen_stocks_enter(cat, mv, mt) ==
    /\ category' = cat
    /\ min_value_score' = mv
    /\ min_trend_score' = mt
    /\ passes' = passes + 1
    /\ idx' = 0
    /\ results' = empty_results
    /\ fetched' = [s \in AllSymbols |-> 0]
    /\ raised' = FALSE
    /\ IF category_given(cat) /\ sectors_get(cat[1]) = << >>
       THEN /\ symbols' = << >>
            /\ out' = <<Msg("Unknown category", cat[1]),
                        Msg("Available categories", SectorKeys)>>
            /\ df' = Some(<< >>)
            /\ prev' = record_pass(cat, mv, mt, << >>)
            /\ pc' = "returned"
       ELSE /\ symbols' = IF category_given(cat) THEN sectors_get(cat[1])
                          ELSE unique_symbols
            /\ out' = <<Msg("Screening", Len(symbols'))>>
            /\ df' = None
            /\ prev' = prev
            /\ pc' = "loop"
    /\ UNCHANGED <<arg, ret, provider, hashOrder, sectors>>

\* One iteration of the loop of lines 242-249
ScreenStep ==
    /\ pc = "loop"
    /\ idx < Len(symbols)
    /\ LET symbol == symbols[idx + 1]
           data == get_stock_data(symbol)
       IN  /\ fetched' = [fetched EXCEPT ![symbol] = @ + 1]
           /\ IF fetch_escapes(symbol)
              THEN /\ raised' = TRUE
                   /\ pc' = "crashed"
                   /\ out' = <<Msg("Analyzing", symbol)>>
                   /\ UNCHANGED <<idx, results>>
              ELSE /\ out' = <<Msg("Analyzing", symbol)>> \o fetch_prints(symbol)
                   /\ results' = IF data # None
                                 THEN Append(results, scored(data[1]))
                                 ELSE results
                   /\ idx' = idx + 1
                   /\ UNCHANGED <<raised, pc>>
    /\ UNCHANGED <<arg, ret, provider, hashOrder, sectors, category, df,
                   min_value_score, min_trend_score, symbols, passes, prev,
                   choice>>

\* Lines 251-264: the loop has ended; filter, sort and return
ScreenReturn ==
    /\ pc = "loop"
    /\ idx = Len(symbols)
    /\ df' = IF results = << >> THEN Some(<< >>)
             ELSE Some(sort_values(filter_rows(results, min_value_score,
                                               min_trend_score)))
    /\ prev' = record_pass(category, min_value_score, min_trend_score, df'[1])
    /\ out' = << >>
    /\ pc' = "returned"
    /\ UNCHANGED <<arg, ret, provider, hashOrder, sectors, category, fetched,
                   min_value_score, min_trend_score, symbols, idx, results,
                   raised, passes, choice>>

\* The rows the loop of lines 242-249 collects when it iterates syms
RECURSIVE collect(_)
collect(syms) ==
    IF syms = << >> THEN << >>
    ELSE LET data == get_stock_data(Head(syms))
         IN  (IF data # None THEN <<scored(data[1])>> ELSE << >>)
             \o collect(Tail(syms))

\* What lines 241-264 return when the loop iterates syms
screen_result(syms, mv, mt) ==
    IF collect(syms) = << >> THEN << >>
    ELSE sort_values(filter_rows(collect(syms), mv, mt))

-----------------------------------------------------------------------------
(* screen_stocks called directly, one pass after another in one process *)

\* How many screening passes a behaviour may start
MaxPasses == 2

\* 251 closes: 100 first, 90 at the midpoint, 99 last
LongHistory ==
    [j \in 1..(MIDPOINT_MIN + 1) |->
        IF j = 1 THEN 100
        ELSE IF j = (MIDPOINT_MIN + 1) \div 2 + 1 THEN 90
        ELSE IF j = MIDPOINT_MIN + 1 THEN 99
        ELSE 95]

\* value 6, trend 3 (both returns 12%)
Cheap ==
    Response(FALSE, FALSE,
             Info(Some(Rat(10, 1)), None, Some(Rat(5, 100)), None),
             <<100, 112>>)

\* value 4, trend 5 (both returns 25%)
Rising ==
    Response(FALSE, FALSE,
             Info(Some(Rat(18, 1)), None, None, Some(Rat(9, 10))),
             <<100, 110, 125>>)

\* value 7, trend 1 (1-year return 10%, 2-year return -1%)
Flat ==
    Response(FALSE, FALSE,
             Info(Some(Rat(10, 1)), Some(Rat(1, 1)), Some(Rat(15, 1000)), None),
             LongHistory)

InfoFails == Response(TRUE, FALSE, Info(None, None, None, None), << >>)

HistoryFails == Response(FALSE, TRUE, Info(None, None, None, None), << >>)

EmptyHistory ==
    Response(FALSE, FALSE, Info(Some(Rat(10, 1)), None, None, None), << >>)

ScreenSamples == {Cheap, Rising, Flat, InfoFails, HistoryFails, EmptyHistory}

\* No category, the empty string, a key the registry lacks, and its keys
CategorySamples ==
    {None, Some(""), Some("crypto")} \cup {Some(k) : k \in DOMAIN SECTORS}

MinValueSamples == {DEFAULT_MIN_VALUE - 1, DEFAULT_MIN_VALUE}

MinTrendSamples == {DEFAULT_MIN_TREND - 1, DEFAULT_MIN_TREND}

ScreenInit ==
    /\ pc = "idle"
    /\ arg = None
    /\ ret = None
    /\ provider \in [AllSymbols -> ScreenSamples]
    /\ hashOrder \in Orders(AllSymbols)
    /\ NoCall

ScreenCall ==
    /\ pc \in {"idle", "returned"}
    /\ passes < MaxPasses
    /\ \E cat \in CategorySamples, mv \in MinValueSamples, mt \in MinTrendSamples :
          screen_stocks_enter(cat, mv, mt)
    /\ UNCHANGED choice

ScreenNext == ScreenCall \/ ScreenStep \/ ScreenReturn

SpecScreen == ScreenInit /\ [][ScreenNext]_vars

\* The same calls with the first pass recorded, over fewer responses
IdemInit ==
    /\ pc = "idle"
    /\ arg = None
    /\ ret = None
    /\ provider \in [AllSymbols -> {Cheap, Rising, EmptyHistory}]
    /\ hashOrder \in Orders(AllSymbols)
    /\ sectors = SECTORS
    /\ category = None
    /\ min_value_score = 0
    /\ min_trend_score = 0
    /\ symbols = << >>
    /\ idx = 0
    /\ results = << >>
    /\ df = None
    /\ fetched = [s \in AllSymbols |-> 0]
    /\ out = << >>
    /\ raised = FALSE
    /\ passes = 0
    /\ prev = [tracking |-> TRUE, first |-> None]
    /\ choice = << >>

SpecIdem == IdemInit /\ [][ScreenNext]_vars

-----------------------------------------------------------------------------
(* Properties of the screening pipeline *)

\* The provider answers for the symbol: neither call raises and the history
\* is not empty
FetchSucceeds(s) ==
    /\ ~provider[s].info_raises
    /\ ~provider[s].history_raises
    /\ provider[s].closes # << >>

ValueOf(s) == calculate_value_score(get_stock_data(s)[1])

TrendOf(s) == calculate_trend_score(get_stock_data(s)[1])

SymbolsOf(frame) == {frame[j].symbol : j \in DOMAIN frame}

NonIncreasing(frame) ==
    \A j, k \in DOMAIN frame :
        j < k => frame[j].combined_score >= frame[k].combined_score

\* C3: the returned sequence holds exactly the successfully fetched symbols
\* whose value_score >= min_value_score and trend_score >= min_trend_score,
\* each once and with combined_score = value_score + trend_score, in order
\* of non-increasing combined_score.
C3_FilteredAndSorted ==
    pc = "returned" =>
        LET frame == df[1]
            kept == {s \in Range(symbols) :
                        /\ FetchSucceeds(s)
                        /\ ValueOf(s) >= min_value_score
                        /\ TrendOf(s) >= min_trend_score}
        IN  /\ SymbolsOf(frame) = kept
            /\ Len(frame) = Cardinality(kept)
            /\ \A j \in DOMAIN frame :
                  /\ frame[j].value_score = ValueOf(frame[j].symbol)
                  /\ frame[j].trend_score = TrendOf(frame[j].symbol)
                  /\ frame[j].combined_score =
                        frame[j].value_score + frame[j].trend_score
            /\ NonIncreasing(frame)

\* A pass over three symbols has returned two of them, reordered by the
\* sort, and dropped a fetched symbol whose value score is below the minimum
C3_Witness ==
    /\ pc = "returned"
    /\ Len(symbols) = 3
    /\ Len(df[1]) = 2
    /\ df[1][1].combined_score > df[1][2].combined_score
    /\ df[1] # filter_rows(results, min_value_score, min_trend_score)
    /\ \E s \in Range(symbols) :
          /\ FetchSucceeds(s)
          /\ ValueOf(s) < min_value_score
          /\ TrendOf(s) >= min_trend_score

\* C4: a call whose category is not None and not a key of the registry
\* reports the unknown category with the list of valid keys, returns an
\* empty result without fetching any symbol and without raising, and
\* leaves the registry unchanged.
C4_UnknownCategoryReported ==
    (passes > 0 /\ category # None /\ category[1] \notin DOMAIN SECTORS) =>
        /\ pc = "returned"
        /\ df = Some(<< >>)
        /\ out = <<Msg("Unknown category", category[1]),
                   Msg("Available categories", SectorKeys)>>
        /\ \A s \in AllSymbols : fetched[s] = 0
        /\ ~raised
        /\ sectors = SECTORS

\* The same statement for every category that is not the empty string
C4_ExceptEmptyString ==
    (passes > 0 /\ category # None /\ category[1] \notin DOMAIN SECTORS
       /\ category[1] # "") =>
        /\ pc = "returned"
        /\ df = Some(<< >>)
        /\ out = <<Msg("Unknown category", category[1]),
                   Msg("Available categories", SectorKeys)>>
        /\ \A s \in AllSymbols : fetched[s] = 0
        /\ ~raised
        /\ sectors = SECTORS

\* C5: no error leaves screen_stocks; a symbol is never fetched twice in a
\* pass; the loop has fetched exactly the symbols it has passed, so a pass
\* over n symbols that has returned made n fetch attempts, one per symbol,
\* whatever subset failed; and a symbol whose fetch failed is not in the
\* result.
C5_FailuresSkipped ==
    /\ ~raised
    /\ pc # "crashed"
    /\ pc \in {"loop", "returned"} =>
          /\ \A s \in AllSymbols :
                fetched[s] = Cardinality({j \in 1..idx : symbols[j] = s})
          /\ \A s \in AllSymbols : fetched[s] <= 1
    /\ pc = "returned" =>
          /\ idx = Len(symbols)
          /\ \A s \in Range(symbols) : ~FetchSucceeds(s) => s \notin SymbolsOf(df[1])

\* A pass over three symbols has returned: the first fetch raised on the
\* history call, the second found an empty history, the third is returned
C5_Witness ==
    /\ pc = "returned"
    /\ Len(symbols) = 3
    /\ provider[symbols[1]].history_raises
    /\ provider[symbols[2]] = EmptyHistory
    /\ SymbolsOf(df[1]) = {symbols[3]}
    /\ \A s \in AllSymbols : fetched[s] = 1

\* C6: a pass with no category fetches the union of the symbol lists of
\* all categories, each symbol once; a pass with a known category fetches
\* exactly the symbols of that category.
C6_SymbolsFetched ==
    pc = "returned" =>
        /\ category = None =>
              /\ Range(symbols) = UNION {Range(SECTORS[k]) : k \in DOMAIN SECTORS}
              /\ \A s \in Range(symbols) : fetched[s] = 1
              /\ Len(symbols) = Cardinality(Range(symbols))
        /\ (category # None /\ category[1] \in DOMAIN SECTORS) =>
              /\ symbols = SECTORS[category[1]]
              /\ \A s \in AllSymbols :
                    fetched[s] = IF s \in Range(SECTORS[category[1]]) THEN 1 ELSE 0

\* A pass with no category has returned, and the symbol that two
\* categories list was fetched once
C6_Witness ==
    /\ pc = "returned"
    /\ category = None
    /\ "NEE" \in Range(SECTORS["utilities"]) \cap Range(SECTORS["infrastructure"])
    /\ fetched["NEE"] = 1
    /\ Len(symbols) = 3

Orderings(seq) ==
    {[j \in DOMAIN seq |-> seq[f[j]]] :
        f \in {g \in [DOMAIN seq -> DOMAIN seq] : Range(g) = DOMAIN seq}}

Scores(frame) == [j \in DOMAIN frame |-> frame[j].combined_score]

DistinctScores(frame) ==
    \A j, k \in DOMAIN frame :
        j # k => frame[j].combined_score # frame[k].combined_score

\* C8: whatever the order in which the symbols of the pass are iterated,
\* screen_stocks returns the same ordered sequence.
C8_OrderIndependent ==
    (pc = "returned" /\ idx > 0) =>
        \A syms \in Orderings(symbols) :
            screen_result(syms, min_value_score, min_trend_score) = df[1]

\* C8 as amended: whatever the order of iteration, the same entries are
\* returned with the same sequence of combined scores, and the same
\* sequence outright when no two returned entries have the same combined
\* score.
C8_OrderIndependentUpToTies ==
    (pc = "returned" /\ idx > 0) =>
        \A syms \in Orderings(symbols) :
            LET other == screen_result(syms, min_value_score, min_trend_score)
            IN  /\ Range(other) = Range(df[1])
                /\ Len(other) = Len(df[1])
                /\ Scores(other) = Scores(df[1])
                /\ DistinctScores(df[1]) => other = df[1]

\* A pass over three symbols has returned two entries with different
\* combined scores, which the loop collected in the opposite order
C8_Witness ==
    /\ pc = "returned"
    /\ Len(symbols) = 3
    /\ Len(df[1]) = 2
    /\ DistinctScores(df[1])
    /\ results # << >>
    /\ filter_rows(results, min_value_score, min_trend_score)
          = <<df[1][2], df[1][1]>>

-----------------------------------------------------------------------------
(* main, lines 296-335.  A line of input is a sequence of characters.  The *)
(* two lines main prints before a pass ("Screening ...", lines 319, 322)   *)
(* are left out of out.                                                    *)

\* The longest line of input
MaxInputLen == 2

\* Digits, white space and a sign; "-", "1-" or "" are no numerals
Alphabet == {" ", "0", "1", "2", "3", "-"}

InputLines == UNION {[1..n -> Alphabet] : n \in 0..MaxInputLen}

RECURSIVE lstrip(_)
lstrip(s) == IF s # << >> /\ s[1] = " " THEN lstrip(Tail(s)) ELSE s

RECURSIVE rstrip(_)
rstrip(s) ==
    IF s # << >> /\ s[Len(s)] = " " THEN rstrip(SubSeq(s, 1, Len(s) - 1)) ELSE s

\* str.strip(), line 309
strip(s) == rstrip(lstrip(s))

DigitValue(c) ==
    CASE c = "0" -> 0 [] c = "1" -> 1 [] c = "2" -> 2 [] c = "3" -> 3

IsDigit(c) == c \in {"0", "1", "2", "3"}

\* The digits of a numeral after its sign
unsigned(s) == IF s # << >> /\ s[1] \in {"-", "+"} THEN Tail(s) ELSE s

\* Whether int(s) returns: white space around an optional sign and at
\* least one digit; otherwise it raises ValueError (line 314)
int_accepts(s) ==
    LET body == unsigned(strip(s))
    IN  body # << >> /\ \A j \in DOMAIN body : IsDigit(body[j])

RECURSIVE decimal(_)
decimal(ds) ==
    IF ds = << >> THEN 0
    ELSE 10 * decimal(SubSeq(ds, 1, Len(ds) - 1)) + DigitValue(ds[Len(ds)])

\* int(s), where it returns
int(s) ==
    LET t == strip(s)
    IN  IF t[1] = "-" THEN 0 - decimal(unsigned(t)) ELSE decimal(unsigned(t))

\* len(SECTORS)
len_sectors == Cardinality(DOMAIN sectors)

\* A plausible slip: categories[choice - 2], which wraps around for 1
category_before(n) ==
    IF n = 1 THEN SectorKeys[Len(SectorKeys)] ELSE SectorKeys[n - 1]

\* categories[choice - 1], line 321
category_at(n) == SectorKeys[n]

Goodbye == <<Msg("Goodbye!", "")>>

InterruptedGoodbye == <<Msg("\nGoodbye!", "")>>

\* What a step of main leaves alone when it starts no pass
NoPassStarted ==
    UNCHANGED <<arg, ret, provider, hashOrder, sectors, category,
                min_value_score, min_trend_score, symbols, idx, results, df,
                fetched, raised, passes, prev>>

MainInit ==
    /\ pc = "main"
    /\ arg = None
    /\ ret = None
    /\ \E failing \in {{"NEE"}, AllSymbols} :
          provider = [s \in AllSymbols |->
                         IF s \in failing THEN EmptyHistory ELSE Cheap]
    /\ hashOrder \in Orders(AllSymbols)
    /\ NoCall

\* Lines 298-305: the menu
MainStart ==
    /\ pc = "main"
    /\ out' = <<Msg("Categories", SectorKeys),
                Msg("All Categories", len_sectors + 1), Msg("Exit", 0)>>
    /\ pc' = "prompt"
    /\ choice' = choice
    /\ NoPassStarted

\* Lines 309-328: one line is read and acted on
MainInput ==
    /\ pc = "prompt"
    /\ \E line \in InputLines :
          /\ choice' = line
          /\ IF strip(line) = <<"0">>
             THEN /\ out' = Goodbye
                  /\ pc' = "exit"
                  /\ NoPassStarted
             ELSE IF ~int_accepts(strip(line))
             THEN /\ out' = <<Msg("Please enter a valid number.", "")>>
                  /\ pc' = "prompt"
                  /\ NoPassStarted
             ELSE IF int(strip(line)) = len_sectors + 1
             THEN /\ passes < MaxPasses
                  /\ screen_stocks_enter(None, DEFAULT_MIN_VALUE,
                                         DEFAULT_MIN_TREND)
             ELSE IF 1 <= int(strip(line)) /\ int(strip(line)) <= len_sectors
             THEN /\ passes < MaxPasses
                  /\ screen_stocks_enter(Some(category_at(int(strip(line)))),
                                         DEFAULT_MIN_VALUE, DEFAULT_MIN_TREND)
             ELSE /\ out' = <<Msg("Invalid choice. Try again.", "")>>
                  /\ pc' = "prompt"
                  /\ NoPassStarted

\* display_results, lines 267-293, and back to the prompt
MainDisplay ==
    /\ pc = "returned"
    /\ out' = IF df[1] = << >>
              THEN <<Msg("No stocks matched the criteria.", "")>>
              ELSE <<Msg("Total matches", Len(df[1]))>>
    /\ pc' = "prompt"
    /\ choice' = choice
    /\ NoPassStarted

\* KeyboardInterrupt at the prompt or anywhere in a pass: get_stock_data's
\* except Exception does not catch it, main's handler does (lines 333-335)
MainInterrupt ==
    /\ pc \in {"prompt", "loop", "returned"}
    /\ out' = InterruptedGoodbye
    /\ pc' = "exit"
    /\ choice' = choice
    /\ NoPassStarted

MainNext ==
    MainStart \/ MainInput \/ ScreenStep \/ ScreenReturn \/ MainDisplay
    \/ MainInterrupt

SpecMain == MainInit /\ [][MainNext]_vars

-----------------------------------------------------------------------------
(* Properties of the interactive loop *)

\* What one step of main does, the line read being choice'
MainLoopStep ==
    LET line == choice'
        reads == pc = "prompt" /\ out' # InterruptedGoodbye
        numeral == strip(line) # <<"0">> /\ int_accepts(line)
        N == Len(SectorKeys)
    IN  /\ (pc # "exit" /\ pc' = "exit") =>
              /\ ~raised'
              /\ \/ reads /\ strip(line) = <<"0">> /\ out' = Goodbye
                 \/ out' = InterruptedGoodbye
        /\ ~reads => passes' = passes
        /\ (reads /\ strip(line) = <<"0">>) =>
              pc' = "exit" /\ passes' = passes
        /\ (reads /\ numeral /\ 1 <= int(line) /\ int(line) <= N) =>
              /\ passes' = passes + 1
              /\ pc' = "loop"
              /\ idx' = 0
              /\ category' = Some(SectorKeys[int(line)])
              /\ symbols' = SECTORS[SectorKeys[int(line)]]
        /\ (reads /\ numeral /\ int(line) = N + 1) =>
              /\ passes' = passes + 1
              /\ pc' = "loop"
              /\ idx' = 0
              /\ category' = None
              /\ Range(symbols') = AllSymbols
        /\ (reads /\ strip(line) # <<"0">>
              /\ (~int_accepts(line) \/ int(line) < 1 \/ int(line) > N + 1)) =>
              /\ passes' = passes
              /\ pc' = "prompt"
              /\ out' \in {<<Msg("Please enter a valid number.", "")>>,
                           <<Msg("Invalid choice. Try again.", "")>>}
              /\ UNCHANGED <<df, fetched, results, symbols, category>>

=============================================================================
